---- MODULE Spec2Model ----
(***************************************************************************)
(* Model of src/app.py: the alerting relay's two process-wide stores       *)
(* (ALARM_STORE, LATEST_RESULT_STORE) and the Flask handlers that read and *)
(* write them.                                                             *)
(*                                                                         *)
(* Python values are tagged records ([t |-> "int", n |-> 4], ...); a       *)
(* Python dict is a TLA+ function from its keys, so dict.get(k, default)   *)
(* is a DOMAIN test.  A handler is a sequence of steps, one per statement  *)
(* that touches a global; a thread switch can happen between any two       *)
(* steps.  Each statement makes one access to a global (len, pop, append,  *)
(* the list comprehension's read, the rebind, one dict item store, one     *)
(* dict copy), which CPython executes without releasing the interpreter    *)
(* lock.  An exception nobody catches ends the handler with Flask's 500    *)
(* response (internal_error, src/app.py:493-496).                          *)
(***************************************************************************)
EXTENDS Integers, Sequences, FiniteSets, TLC

VARIABLES ALARM_STORE, LATEST_RESULT_STORE, pc, req, loc, resp, pre, hist,
          nextId, clock, started, environ, outbound

vars == <<ALARM_STORE, LATEST_RESULT_STORE, pc, req, loc, resp, pre, hist,
          nextId, clock, started, environ, outbound>>

(***************************************************************************)
(* Bounds                                                                  *)
(***************************************************************************)
\* requests a one-at-a-time run may start in all
MaxSeqReqs == 6
\* requests a concurrent run may start in all
MaxConcReqs == 4
\* requests to the gateway endpoints in a run of the gateway specification
MaxGwReqs == 2

\* the request-handling threads of the server
Threads == {1, 2}
\* the thread that serves every request of a one-at-a-time run
MainThread == CHOOSE p \in Threads : \A q \in Threads : p <= q

(***************************************************************************)
(* Python values                                                           *)
(***************************************************************************)
None == [t |-> "none"]
PyBool(b) == [t |-> "bool", b |-> b]
PyInt(n) == [t |-> "int", n |-> n]
PyStr(s) == [t |-> "str", s |-> s]
PyList(xs) == [t |-> "list", xs |-> xs]
PyDict(d) == [t |-> "dict", d |-> d]
\* a str whose characters the program looks at, as the sequence of them
PyText(cs) == [t |-> "text", cs |-> cs]
\* an f-string: the concatenation of its literal pieces and formatted values
FStr(parts) == [t |-> "fstr", parts |-> parts]
\* str(uuid.uuid4()): the k-th identifier drawn; two draws never coincide
Uuid(k) == [t |-> "uuid", n |-> k]
\* time.time() at the k-th reading of the clock
Time(k) == [t |-> "time", n |-> k]

EmptyDict == PyDict(<<>>)

\* marks a key left out of a payload while payloads are enumerated
Omit == [t |-> "omit"]
Strip(r) == [k \in {j \in DOMAIN r : r[j] # Omit} |-> r[k]]

\* Python truth value testing
Truthy(v) ==
    CASE v.t = "none" -> FALSE
      [] v.t = "bool" -> v.b
      [] v.t = "int"  -> v.n # 0
      [] v.t = "str"  -> v.s # ""
      [] v.t = "text" -> v.cs # <<>>
      [] v.t = "list" -> Len(v.xs) > 0
      [] v.t = "dict" -> DOMAIN v.d # {}
      [] OTHER        -> TRUE

\* d.get(k, default) on a dict
DictGet(d, k, default) == IF k \in DOMAIN d THEN d[k] ELSE default

\* v.get exists only on a dict; on anything else it raises AttributeError
HasGet(v) == v.t = "dict"
\* a list or a dict is unhashable: using it as a dict key raises TypeError
Hashable(v) == v.t \notin {"list", "dict"}

\* request.get_json(silent=True) or {}
BodyOf(json) == IF Truthy(json) THEN json ELSE EmptyDict

(***************************************************************************)
(* Program constants                                                       *)
(***************************************************************************)
MAX_ALARMS == 3

DEVICE_MAP == (4 :> PyStr("CR1")) @@ (5 :> PyStr("BB1")) @@ (6 :> PyStr("BB2"))

\* a lookup that never finds the id
DeviceNameNoLookup(device_id) == FStr(<<PyStr("Unknown("), device_id, PyStr(")")>>)

\* DEVICE_MAP.get(device_id, f"Unknown({device_id})")
DeviceName(device_id) ==
    IF device_id.t = "int" /\ device_id.n \in DOMAIN DEVICE_MAP
    THEN DEVICE_MAP[device_id.n]
    ELSE FStr(<<PyStr("Unknown("), device_id, PyStr(")")>>)

LOG_DESCRIPTION == PyStr("fpc/8/pfe/0/cm/0/XMCHIP(0)/0/XMCHIP_CMERROR_FI_PAR_PROTECT_FSET_REG_DETECTED_CP_FREEPOOL")

\* the Korean wording of the titles and of the interlink warning (lines 256,
\* 263, 296, 326) is written in English in the string pieces of this module

\* Flask's answers
Answer(status, body) == [status |-> status, body |-> body]
NoAnswer == Answer(0, <<>>)
Error400(msg) == Answer(400, [error |-> PyStr(msg)])
Error500 == Answer(500, [error |-> PyStr("Internal server error")])

(***************************************************************************)
(* Alarm normalisation (api_alerts, lines 228-340).  The result is either  *)
(* [ok |-> TRUE, alarm |-> unified_alarm_data] or [ok |-> FALSE,           *)
(* answer |-> the error response].                                         *)
(***************************************************************************)
Built(alarm) == [ok |-> TRUE, alarm |-> alarm, answer |-> NoAnswer]
Rejected(answer) == [ok |-> FALSE, alarm |-> <<>>, answer |-> answer]

Scenario1(b, uuid) ==
    LET device_id        == DictGet(b, "device", None)
        device_name      == DeviceName(device_id)
        interface_name   == DictGet(b, "interface", None)
        packet_loss      == DictGet(b, "packet_loss", None)
        time             == DictGet(b, "timestamp", None)
        alarm_type       == DictGet(b, "alarm_type", None)
        interlink_status == DictGet(b, "interlink_status", None)
        optic_power_data == DictGet(b, "optic_power", EmptyDict)
        art == IF interlink_status = PyStr("false")
               THEN FStr(<<PyStr("*warning : "), interface_name,
                           PyStr(" is down. check the interlink.")>>)
               ELSE PyStr("")
    IN  IF ~Hashable(device_id) THEN Rejected(Error500)
        ELSE IF ~(Truthy(device_id) /\ Truthy(interface_name)
                  /\ packet_loss # None /\ Truthy(alarm_type))
        THEN Rejected(Error400("Missing data for scenario 1"))
        ELSE Built([id |-> uuid,
                    device |-> device_name,
                    title |-> FStr(<<device_name, PyStr(" Interface "),
                                     interface_name, PyStr(" CRC Error")>>),
                    description |-> FStr(<<PyStr("Interface "), interface_name,
                                           PyStr(" error rate - "), packet_loss,
                                           PyStr("%<br>"), art>>),
                    type |-> alarm_type,
                    time |-> time,
                    optic_power_data |-> optic_power_data,
                    show_optic_power_button |-> PyBool(TRUE),
                    interface_name |-> interface_name])

Scenario3(b, uuid) ==
    LET device_id       == DictGet(b, "device", None)
        device_name     == DeviceName(device_id)
        interface_name  == DictGet(b, "interface", None)
        interfaces_list == DictGet(b, "interfaces", PyList(<<>>))
        inout_packet    == DictGet(b, "inout_packet", EmptyDict)
        time            == DictGet(b, "timestamp", None)
        drop_count      == DictGet(b, "drop_count", EmptyDict)
    IN  IF ~Hashable(device_id) THEN Rejected(Error500)
        ELSE IF ~(Truthy(device_id) /\ Truthy(interface_name)
                  /\ Truthy(interfaces_list) /\ Truthy(inout_packet)
                  /\ Truthy(drop_count))
        THEN Rejected(Error400("Missing data for scenario 3"))
        ELSE IF ~HasGet(inout_packet) THEN Rejected(Error500)
        ELSE LET severity == DictGet(inout_packet.d, "alarm_type", None)
                 rate     == DictGet(inout_packet.d, "traffic_diff", PyInt(0))
             IN  Built([id |-> uuid,
                        title |-> FStr(<<device_name, PyStr(" Interface "),
                                         interface_name, PyStr(" Blackhole")>>),
                        description |-> FStr(<<PyStr("Service Impact Rate - "),
                                               rate, PyStr("%")>>),
                        type |-> severity,
                        time |-> time,
                        show_optic_power_button |-> PyBool(FALSE),
                        show_interfaces_button |-> PyBool(TRUE),
                        interfaces |-> interfaces_list])

\* scenario 2 with the severity taken from the size of the discard rate
Scenario2SeverityFromRate(b, uuid) ==
    LET device_id   == DictGet(b, "device", None)
        device_name == DeviceName(device_id)
        fpc_slot    == DictGet(b, "fpc_slot", None)
        time        == DictGet(b, "timestamp", None)
        outer       == DictGet(b, "discard_rate", EmptyDict)
    IN  IF ~Hashable(device_id) THEN Rejected(Error500)
        ELSE IF ~HasGet(outer) THEN Rejected(Error500)
        ELSE LET discard_rate == DictGet(outer.d, "discard_rate", PyInt(0))
                 severity     == IF discard_rate.t = "int" /\ discard_rate.n > 50
                                 THEN PyStr("major") ELSE PyStr("minor")
             IN  IF ~(Truthy(device_id) /\ Truthy(fpc_slot)
                      /\ Truthy(LOG_DESCRIPTION) /\ Truthy(discard_rate))
                 THEN Rejected(Error400("Missing data for scenario 2"))
                 ELSE Built([id |-> uuid,
                             title |-> FStr(<<device_name, PyStr(" FPC"),
                                              fpc_slot, PyStr(" PFE Disable")>>),
                             description |-> FStr(<<PyStr("Service Impact Rate - "),
                                                    discard_rate, PyStr("%")>>),
                             type |-> severity,
                             time |-> time,
                             show_optic_power_button |-> PyBool(FALSE),
                             show_interfaces_button |-> PyBool(FALSE),
                             show_log_button |-> PyBool(TRUE),
                             discard_data |-> discard_rate,
                             log_description |-> LOG_DESCRIPTION])

Scenario2(b, uuid) ==
    LET device_id   == DictGet(b, "device", None)
        device_name == DeviceName(device_id)
        fpc_slot    == DictGet(b, "fpc_slot", None)
        time        == DictGet(b, "timestamp", None)
        outer       == DictGet(b, "discard_rate", EmptyDict)
    IN  IF ~Hashable(device_id) THEN Rejected(Error500)
        ELSE IF ~HasGet(outer) THEN Rejected(Error500)
        ELSE LET discard_rate == DictGet(outer.d, "discard_rate", PyInt(0))
                 severity     == PyStr("major")
             IN  IF ~(Truthy(device_id) /\ Truthy(fpc_slot)
                      /\ Truthy(LOG_DESCRIPTION) /\ Truthy(discard_rate))
                 THEN Rejected(Error400("Missing data for scenario 2"))
                 ELSE Built([id |-> uuid,
                             title |-> FStr(<<device_name, PyStr(" FPC"),
                                              fpc_slot, PyStr(" PFE Disable")>>),
                             description |-> FStr(<<PyStr("Service Impact Rate - "),
                                                    discard_rate, PyStr("%")>>),
                             type |-> severity,
                             time |-> time,
                             show_optic_power_button |-> PyBool(FALSE),
                             show_interfaces_button |-> PyBool(FALSE),
                             show_log_button |-> PyBool(TRUE),
                             discard_data |-> discard_rate,
                             log_description |-> LOG_DESCRIPTION])

\* lines 228-340: everything api_alerts does before it touches ALARM_STORE
Normalize(scenario_id, json, uuid) ==
    LET body == BodyOf(json)
    IN  IF ~Truthy(body) THEN Rejected(Error400("Request body is required"))
        ELSE IF scenario_id \notin {"1", "2", "3"}
        THEN Rejected(Error400("invalid or unsupported scenario_id"))
        ELSE IF ~HasGet(body) THEN Rejected(Error500)
        ELSE IF scenario_id = "1" THEN Scenario1(body.d, uuid)
        ELSE IF scenario_id = "3" THEN Scenario3(body.d, uuid)
        ELSE Scenario2(body.d, uuid)

(***************************************************************************)
(* State                                                                   *)
(***************************************************************************)
Kinds == {"alerts", "ignore", "current", "agent", "results", "analyze", "proxy"}

NoRequest == [kind |-> "none", arg |-> "", json |-> None]
Request(kind, arg, json) == [kind |-> kind, arg |-> arg, json |-> json]

\* a handler's local variables
NoLocals == [unified_alarm_data |-> <<>>, original_len |-> 0,
             new_list |-> <<>>, result |-> <<>>, calls |-> 0,
             upstream |-> "none"]

\* line 30 and line 32
Init ==
    /\ ALARM_STORE = <<>>
    /\ LATEST_RESULT_STORE = [result |-> PyDict([text |-> PyStr("")]),
                              timestamp |-> None, scenario_id |-> None]
    /\ pc = [p \in Threads |-> "idle"]
    /\ req = [p \in Threads |-> NoRequest]
    /\ loc = [p \in Threads |-> NoLocals]
    /\ resp = [p \in Threads |-> NoAnswer]
    /\ pre = [p \in Threads |-> <<>>]
    /\ hist = <<>>
    /\ nextId = 1
    /\ clock = 1
    /\ started = [k \in Kinds |-> 0]
    /\ environ = <<>>
    /\ outbound = <<>>

FirstLabel(kind) ==
    CASE kind = "alerts"  -> "alerts_228"
      [] kind = "ignore"  -> "ignore_397"
      [] kind = "current" -> "current_387"
      [] kind = "agent"   -> "agent_416"
      [] kind = "results" -> "results_443"
      [] kind = "analyze" -> "analyze_143"
      [] kind = "proxy"   -> "proxy_359"

AllIdle == \A p \in Threads : pc[p] = "idle"

\* a request arrives and thread p starts its handler; pre[p] remembers the
\* stores as the request found them
Begin(p, r) ==
    /\ pc[p] = "idle"
    /\ pc' = [pc EXCEPT ![p] = FirstLabel(r.kind)]
    /\ req' = [req EXCEPT ![p] = r]
    /\ loc' = [loc EXCEPT ![p] = NoLocals]
    /\ pre' = [pre EXCEPT ![p] = [store |-> ALARM_STORE,
                                  mailbox |-> LATEST_RESULT_STORE]]
    /\ started' = [started EXCEPT ![r.kind] = @ + 1]
    /\ UNCHANGED <<ALARM_STORE, LATEST_RESULT_STORE, resp, hist, nextId, clock,
                   environ, outbound>>

\* the handler returns (or an exception ends it) with answer a
Finish(p, a) ==
    /\ pc' = [pc EXCEPT ![p] = "done"]
    /\ resp' = [resp EXCEPT ![p] = a]

Goto(p, label) ==
    /\ pc' = [pc EXCEPT ![p] = label]
    /\ UNCHANGED resp

\* the answer leaves the server; the thread is free for the next request
Respond(p) ==
    /\ pc[p] = "done"
    /\ hist' = Append(hist, [req |-> req[p], resp |-> resp[p],
                             alarm |-> loc[p].unified_alarm_data,
                             pre |-> pre[p],
                             post |-> [store |-> ALARM_STORE,
                                       mailbox |-> LATEST_RESULT_STORE]])
    /\ pc' = [pc EXCEPT ![p] = "idle"]
    /\ req' = [req EXCEPT ![p] = NoRequest]
    /\ loc' = [loc EXCEPT ![p] = NoLocals]
    /\ resp' = [resp EXCEPT ![p] = NoAnswer]
    /\ pre' = [pre EXCEPT ![p] = <<>>]
    /\ UNCHANGED <<ALARM_STORE, LATEST_RESULT_STORE, nextId, clock, started, environ, outbound>>

\* the same, in a run that keeps no log of the answers
Release(p) ==
    /\ pc[p] = "done"
    /\ pc' = [pc EXCEPT ![p] = "idle"]
    /\ req' = [req EXCEPT ![p] = NoRequest]
    /\ loc' = [loc EXCEPT ![p] = NoLocals]
    /\ resp' = [resp EXCEPT ![p] = NoAnswer]
    /\ pre' = [pre EXCEPT ![p] = <<>>]
    /\ UNCHANGED <<ALARM_STORE, LATEST_RESULT_STORE, hist, nextId, clock, started, environ, outbound>>

(***************************************************************************)
(* POST /api/alerts/<scenario_id>                                          *)
(***************************************************************************)
\* a handler that makes room in the store before it has validated the payload
alerts_normalize_evicts_first(p) ==
    /\ pc[p] = "alerts_228"
    /\ ALARM_STORE' = IF Len(ALARM_STORE) >= MAX_ALARMS
                      THEN Tail(ALARM_STORE) ELSE ALARM_STORE
    /\ LET n == Normalize(req[p].arg, req[p].json, Uuid(nextId))
       IN  IF n.ok
           THEN /\ loc' = [loc EXCEPT ![p].unified_alarm_data = n.alarm]
                /\ nextId' = nextId + 1
                /\ Goto(p, "alerts_346")
           ELSE /\ Finish(p, n.answer)
                /\ UNCHANGED <<loc, nextId>>
    /\ UNCHANGED <<LATEST_RESULT_STORE, req, pre, hist, clock, started, environ, outbound>>

\* lines 228-340: parse, validate, build unified_alarm_data
alerts_normalize(p) ==
    /\ pc[p] = "alerts_228"
    /\ LET n == Normalize(req[p].arg, req[p].json, Uuid(nextId))
       IN  IF n.ok
           THEN /\ loc' = [loc EXCEPT ![p].unified_alarm_data = n.alarm]
                /\ nextId' = nextId + 1
                /\ Goto(p, "alerts_346")
           ELSE /\ Finish(p, n.answer)
                /\ UNCHANGED <<loc, nextId>>
    /\ UNCHANGED <<ALARM_STORE, LATEST_RESULT_STORE, req, pre, hist, clock, started, environ, outbound>>

\* line 346: if len(ALARM_STORE) >= MAX_ALARMS
StoreIsFull(store) == Len(store) >= MAX_ALARMS

alerts_len_check(p) ==
    /\ pc[p] = "alerts_346"
    /\ Goto(p, IF StoreIsFull(ALARM_STORE) THEN "alerts_347" ELSE "alerts_349")
    /\ UNCHANGED <<ALARM_STORE, LATEST_RESULT_STORE, req, loc, pre, hist,
                   nextId, clock, started, environ, outbound>>

\* eviction that drops the newest entry instead of the oldest
PopLast(store) == SubSeq(store, 1, Len(store) - 1)

\* line 347: ALARM_STORE.pop(0); on an empty list pop raises IndexError
Pop0(store) == Tail(store)

alerts_pop(p) ==
    /\ pc[p] = "alerts_347"
    /\ IF ALARM_STORE = <<>>
       THEN /\ Finish(p, Error500)
            /\ UNCHANGED ALARM_STORE
       ELSE /\ ALARM_STORE' = Pop0(ALARM_STORE)
            /\ Goto(p, "alerts_349")
    /\ UNCHANGED <<LATEST_RESULT_STORE, req, loc, pre, hist, nextId, clock, started, environ, outbound>>

\* an append that puts the alarm in twice
ListAppendTwice(store, alarm) == Append(Append(store, alarm), alarm)

\* line 349: ALARM_STORE.append(unified_alarm_data)
ListAppend(store, alarm) == Append(store, alarm)

alerts_append(p) ==
    /\ pc[p] = "alerts_349"
    /\ ALARM_STORE' = ListAppend(ALARM_STORE, loc[p].unified_alarm_data)
    /\ Goto(p, "alerts_351")
    /\ UNCHANGED <<LATEST_RESULT_STORE, req, loc, pre, hist, nextId, clock, started, environ, outbound>>

\* line 351: return jsonify({"status": "success", "alarms": ALARM_STORE}), 200
alerts_return(p) ==
    /\ pc[p] = "alerts_351"
    /\ Finish(p, Answer(200, [status |-> PyStr("success"), alarms |-> ALARM_STORE]))
    /\ UNCHANGED <<ALARM_STORE, LATEST_RESULT_STORE, req, loc, pre, hist,
                   nextId, clock, started, environ, outbound>>

(***************************************************************************)
(* DELETE /api/alarms/ignore/<alarm_id>                                    *)
(***************************************************************************)
\* line 397: original_len = len(ALARM_STORE)
ignore_len(p) ==
    /\ pc[p] = "ignore_397"
    /\ loc' = [loc EXCEPT ![p].original_len = Len(ALARM_STORE)]
    /\ Goto(p, "ignore_398")
    /\ UNCHANGED <<ALARM_STORE, LATEST_RESULT_STORE, req, pre, hist, nextId,
                   clock, started, environ, outbound>>

\* a comprehension whose test is inverted: it keeps the named alarm only
WithoutInverted(store, alarm_id) ==
    SelectSeq(store, LAMBDA alarm : DictGet(alarm, "id", None) = alarm_id)

\* line 398, right-hand side:
\* [alarm for alarm in ALARM_STORE if alarm.get("id") != alarm_id]
Without(store, alarm_id) ==
    SelectSeq(store, LAMBDA alarm : DictGet(alarm, "id", None) # alarm_id)

ignore_build(p) ==
    /\ pc[p] = "ignore_398"
    /\ loc' = [loc EXCEPT ![p].new_list = Without(ALARM_STORE, req[p].arg)]
    /\ Goto(p, "ignore_398_bind")
    /\ UNCHANGED <<ALARM_STORE, LATEST_RESULT_STORE, req, pre, hist, nextId,
                   clock, started, environ, outbound>>

\* a rebind that loses the oldest alarm of the new list as well
ignore_bind_drops_oldest(p) ==
    /\ pc[p] = "ignore_398_bind"
    /\ ALARM_STORE' = IF loc[p].new_list = <<>> THEN <<>> ELSE Tail(loc[p].new_list)
    /\ Goto(p, "ignore_399")
    /\ UNCHANGED <<LATEST_RESULT_STORE, req, loc, pre, hist, nextId, clock, started, environ, outbound>>

\* line 398, assignment: the global is bound to the new list
ignore_bind(p) ==
    /\ pc[p] = "ignore_398_bind"
    /\ ALARM_STORE' = loc[p].new_list
    /\ Goto(p, "ignore_399")
    /\ UNCHANGED <<LATEST_RESULT_STORE, req, loc, pre, hist, nextId, clock, started, environ, outbound>>

\* lines 399-403: 200 if the store is now shorter than original_len, else 404
ignore_return(p) ==
    /\ pc[p] = "ignore_399"
    /\ IF Len(ALARM_STORE) < loc[p].original_len
       THEN Finish(p, Answer(200, [status |-> PyStr("success"),
                                   message |-> PyStr("Alarm ignored and removed")]))
       ELSE Finish(p, Answer(404, [error |-> PyStr("Alarm ID not found")]))
    /\ UNCHANGED <<ALARM_STORE, LATEST_RESULT_STORE, req, loc, pre, hist,
                   nextId, clock, started, environ, outbound>>

(***************************************************************************)
(* GET /api/current-alarms                                                 *)
(***************************************************************************)
\* line 387: if ALARM_STORE
current_check(p) ==
    /\ pc[p] = "current_387"
    /\ IF ALARM_STORE # <<>>
       THEN Goto(p, "current_388")
       ELSE Finish(p, Answer(202, [status |-> PyStr("no new alarm")]))
    /\ UNCHANGED <<ALARM_STORE, LATEST_RESULT_STORE, req, loc, pre, hist,
                   nextId, clock, started, environ, outbound>>

\* line 388: return jsonify(ALARM_STORE), 200
current_return(p) ==
    /\ pc[p] = "current_388"
    /\ Finish(p, Answer(200, [alarms |-> ALARM_STORE]))
    /\ UNCHANGED <<ALARM_STORE, LATEST_RESULT_STORE, req, loc, pre, hist,
                   nextId, clock, started, environ, outbound>>

(***************************************************************************)
(* POST /api/agent/process                                                 *)
(***************************************************************************)
\* lines 416-419: body = request.get_json(silent=True) or {}; 400 if empty
agent_body(p) ==
    /\ pc[p] = "agent_416"
    /\ IF ~Truthy(BodyOf(req[p].json))
       THEN Finish(p, Error400("Request body is required"))
       ELSE Goto(p, "agent_430")
    /\ UNCHANGED <<ALARM_STORE, LATEST_RESULT_STORE, req, loc, pre, hist,
                   nextId, clock, started, environ, outbound>>

\* a write that leaves an unconsumed result in place
SetResultIfEmpty(store, body) ==
    IF Truthy(store.result)
    THEN store
    ELSE [store EXCEPT !.result = PyDict([text |-> DictGet(body.d, "text", None)])]

\* line 430: LATEST_RESULT_STORE["result"] = {"text": body.get("text")}
SetResult(store, body) ==
    [store EXCEPT !.result = PyDict([text |-> DictGet(body.d, "text", None)])]

agent_set_result(p) ==
    /\ pc[p] = "agent_430"
    /\ LET body == BodyOf(req[p].json)
       IN  IF ~HasGet(body)
           THEN /\ Finish(p, Error500)
                /\ UNCHANGED LATEST_RESULT_STORE
           ELSE /\ LATEST_RESULT_STORE' = SetResult(LATEST_RESULT_STORE, body)
                /\ Goto(p, "agent_431")
    /\ UNCHANGED <<ALARM_STORE, req, loc, pre, hist, nextId, clock, started, environ, outbound>>

\* line 431: LATEST_RESULT_STORE["timestamp"] = time.time()
agent_set_timestamp(p) ==
    /\ pc[p] = "agent_431"
    /\ LATEST_RESULT_STORE' = [LATEST_RESULT_STORE EXCEPT !.timestamp = Time(clock)]
    /\ clock' = clock + 1
    /\ Goto(p, "agent_432")
    /\ UNCHANGED <<ALARM_STORE, req, loc, pre, hist, nextId, started, environ, outbound>>

\* lines 432-438: LATEST_RESULT_STORE["scenario_id"] = body.get("scenario_id")
\* and the 200 answer
agent_set_scenario(p) ==
    /\ pc[p] = "agent_432"
    /\ LATEST_RESULT_STORE' =
           [LATEST_RESULT_STORE EXCEPT
               !.scenario_id = DictGet(BodyOf(req[p].json).d, "scenario_id", None)]
    /\ Finish(p, Answer(200, [status |-> PyStr("success"),
                              message |-> PyStr("Result stored")]))
    /\ UNCHANGED <<ALARM_STORE, req, loc, pre, hist, nextId, clock, started, environ, outbound>>

(***************************************************************************)
(* GET /api/results/latest-result                                          *)
(***************************************************************************)
\* a presence test on the whole store dict, which is never empty
ResultPresentWholeDict(store) == Truthy(PyDict(store))

\* line 443: if LATEST_RESULT_STORE["result"]
ResultPresent(store) == Truthy(store.result)

results_check(p) ==
    /\ pc[p] = "results_443"
    /\ IF ResultPresent(LATEST_RESULT_STORE)
       THEN Goto(p, "results_445")
       ELSE Finish(p, Answer(202, [status |-> PyStr("processing")]))
    /\ UNCHANGED <<ALARM_STORE, LATEST_RESULT_STORE, req, loc, pre, hist,
                   nextId, clock, started, environ, outbound>>

\* line 445: result = LATEST_RESULT_STORE.copy()
results_copy(p) ==
    /\ pc[p] = "results_445"
    /\ loc' = [loc EXCEPT ![p].result = LATEST_RESULT_STORE]
    /\ Goto(p, "results_446")
    /\ UNCHANGED <<ALARM_STORE, LATEST_RESULT_STORE, req, pre, hist, nextId,
                   clock, started, environ, outbound>>

\* line 446: LATEST_RESULT_STORE["result"] = None
results_clear_result(p) ==
    /\ pc[p] = "results_446"
    /\ LATEST_RESULT_STORE' = [LATEST_RESULT_STORE EXCEPT !.result = None]
    /\ Goto(p, "results_447")
    /\ UNCHANGED <<ALARM_STORE, req, loc, pre, hist, nextId, clock, started, environ, outbound>>

\* line 447: LATEST_RESULT_STORE["timestamp"] = None
results_clear_timestamp(p) ==
    /\ pc[p] = "results_447"
    /\ LATEST_RESULT_STORE' = [LATEST_RESULT_STORE EXCEPT !.timestamp = None]
    /\ Goto(p, "results_448")
    /\ UNCHANGED <<ALARM_STORE, req, loc, pre, hist, nextId, clock, started, environ, outbound>>

\* lines 448-450: LATEST_RESULT_STORE["scenario_id"] = None; return the copy
results_clear_scenario(p) ==
    /\ pc[p] = "results_448"
    /\ LATEST_RESULT_STORE' = [LATEST_RESULT_STORE EXCEPT !.scenario_id = None]
    /\ Finish(p, Answer(200, loc[p].result))
    /\ UNCHANGED <<ALARM_STORE, req, loc, pre, hist, nextId, clock, started, environ, outbound>>

(***************************************************************************)
(* Configuration and the gateway (lines 18-25, 48-68)                      *)
(***************************************************************************)
\* str.lower() on the letters a configuration value is made of
LowerChar(c) ==
    CASE c = "T" -> "t" [] c = "R" -> "r" [] c = "U" -> "u" [] c = "E" -> "e"
      [] c = "F" -> "f" [] c = "A" -> "a" [] c = "L" -> "l" [] c = "S" -> "s"
      [] OTHER -> c
Lower(cs) == [i \in 1..Len(cs) |-> LowerChar(cs[i])]

\* line 19: os.environ.get("GW_VERIFY", "false").lower() == "true"
GW_VERIFY ==
    Lower(DictGet(environ, "GW_VERIFY", <<"f", "a", "l", "s", "e">>))
        = <<"t", "r", "u", "e">>

\* line 18, line 23 and line 25, at their defaults
GATEWAY_BASE == PyStr("https://223.194.92.152:443")
LLM_TIMEOUT_S == 30
AGENT_TIMEOUT_S == 60

\* one requests.post(url, json=..., timeout=..., verify=GW_VERIFY)
Post(path, timeout) ==
    [method |-> "POST", url |-> FStr(<<GATEWAY_BASE>> \o path),
     timeout |-> timeout, verify |-> GW_VERIFY]

\* what becomes of an upstream call: a 2xx answer whose body is a JSON
\* object, a JSON array or no JSON at all; a non-2xx answer, on which
\* raise_for_status raises HTTPError; or a failure of the transport
Outcomes == {"json_object", "json_empty_object", "json_array", "not_json",
             "http_error", "connection_error", "connect_timeout", "read_timeout"}
Failures == {"http_error", "connection_error", "connect_timeout", "read_timeout"}

\* r.json() of a 2xx answer
UpstreamJson(outcome) ==
    CASE outcome = "json_object"       -> PyDict([response |-> PyStr("answer")])
      [] outcome = "json_empty_object" -> EmptyDict
      [] outcome = "json_array"        -> PyList(<<PyStr("answer")>>)

\* str(e) of the exception requests raises: an HTTPError names the url, a
\* failed connection names the path, a read timeout and a JSON decoding error
\* name neither
ExceptionText(outcome, path, timeout) ==
    CASE outcome = "http_error" ->
            FStr(<<PyStr("500 Server Error: Internal Server Error for url: "),
                   GATEWAY_BASE>> \o path)
      [] outcome = "connection_error" ->
            FStr(<<PyStr("HTTPSConnectionPool: Max retries exceeded with url: ")>>
                 \o path \o <<PyStr(" (Caused by NewConnectionError)")>>)
      [] outcome = "connect_timeout" ->
            FStr(<<PyStr("HTTPSConnectionPool: Max retries exceeded with url: ")>>
                 \o path \o <<PyStr(" (Caused by ConnectTimeoutError)")>>)
      [] outcome = "read_timeout" ->
            FStr(<<PyStr("HTTPSConnectionPool: Read timed out. (read timeout="),
                   PyInt(timeout), PyStr(")")>>)
      [] outcome = "not_json" ->
            FStr(<<PyStr("Expecting value: line 1 column 1 (char 0)")>>)

(***************************************************************************)
(* POST /api/analyze                                                       *)
(***************************************************************************)
Whitespace == {" ", "\t", "\n"}

\* str.strip(): the characters without the leading and trailing whitespace
RECURSIVE LStrip(_)
LStrip(cs) == IF cs # <<>> /\ Head(cs) \in Whitespace THEN LStrip(Tail(cs)) ELSE cs
RECURSIVE RStrip(_)
RStrip(cs) ==
    IF cs # <<>> /\ cs[Len(cs)] \in Whitespace
    THEN RStrip(SubSeq(cs, 1, Len(cs) - 1)) ELSE cs
\* a strip that leaves the text as it is
NoStrip(query) == query

StrStrip(query) == PyText(RStrip(LStrip(query.cs)))

\* only a str has strip; on None or a number it raises AttributeError
HasStrip(v) == v.t = "text"

\* lines 143-148: payload, query, and the 400 for a query that strips to ""
analyze_query(p) ==
    /\ pc[p] = "analyze_143"
    /\ LET payload == BodyOf(req[p].json)
       IN  IF ~HasGet(payload) THEN Finish(p, Error500)
           ELSE LET query == DictGet(payload.d, "query", PyText(<<>>))
                IN  IF ~HasStrip(query) THEN Finish(p, Error500)
                    ELSE IF ~Truthy(StrStrip(query))
                    THEN Finish(p, Error400("Query is required"))
                    ELSE Goto(p, "analyze_154")
    /\ UNCHANGED <<ALARM_STORE, LATEST_RESULT_STORE, req, loc, pre, hist,
                   nextId, clock, started, environ, outbound>>

\* lines 152-170: llm_generate -> gw_post -> requests.post, and the answer
GeneratePath == <<PyStr("/api/generate")>>

AnalyzeAnswer(outcome, query, json_error_is_request_exception) ==
    IF outcome \in Failures
       \/ (outcome = "not_json" /\ json_error_is_request_exception)
    THEN Answer(502, [error |-> FStr(<<PyStr("Ollama API request failed: "),
                                       ExceptionText(outcome, GeneratePath, LLM_TIMEOUT_S)>>)])
    ELSE IF outcome = "not_json"
    THEN Answer(500, [error |-> FStr(<<PyStr("Analysis failed: "),
                                       ExceptionText(outcome, GeneratePath, LLM_TIMEOUT_S)>>)])
    ELSE IF ~HasGet(UpstreamJson(outcome))
    THEN Answer(500, [error |-> FStr(<<PyStr("Analysis failed: "),
                                       PyStr("'list' object has no attribute 'get'")>>)])
    ELSE Answer(202, [status |-> PyStr("Analysis completed"),
                      llm_response |-> DictGet(UpstreamJson(outcome).d, "response", PyStr("")),
                      query |-> query])

\* r.json() on a body that is no JSON raises requests' JSONDecodeError, a
\* RequestException in requests 2.27 and later and a plain ValueError before
analyze_generate(p) ==
    /\ pc[p] = "analyze_154"
    /\ \E outcome \in Outcomes, newer \in BOOLEAN :
          /\ outcome # "not_json" => newer
          /\ outbound' = Append(outbound, Post(GeneratePath, LLM_TIMEOUT_S))
          /\ loc' = [loc EXCEPT ![p].calls = @ + 1, ![p].upstream = outcome]
          /\ Finish(p, AnalyzeAnswer(outcome,
                                     DictGet(BodyOf(req[p].json).d, "query", PyText(<<>>)),
                                     newer))
    /\ UNCHANGED <<ALARM_STORE, LATEST_RESULT_STORE, req, pre, hist, nextId,
                   clock, started, environ>>

(***************************************************************************)
(* POST /api/anomaly/process/<actionId>                                    *)
(***************************************************************************)
ActionPath(actionId) == <<PyStr("/api/anomaly/process/"), actionId>>

\* lines 372-382: the upstream's JSON with its status code, or the 502
\* (the message starts with the source's Korean text, "communication with the
\* external action server failed: ", given here in English)
ProxyAnswer(outcome, actionId, json_error_is_request_exception) ==
    IF outcome \in Failures
       \/ (outcome = "not_json" /\ json_error_is_request_exception)
    THEN Answer(502, [status |-> PyStr("error"),
                      message |-> FStr(<<PyStr("upstream action server failed: "),
                                         ExceptionText(outcome, ActionPath(actionId),
                                                       AGENT_TIMEOUT_S)>>)])
    ELSE IF outcome = "not_json"
    THEN Error500
    ELSE Answer(200, UpstreamJson(outcome))

\* lines 359-382: one requests.post to the gateway, and the answer
proxy_forward(p) ==
    /\ pc[p] = "proxy_359"
    /\ \E outcome \in Outcomes, newer \in BOOLEAN :
          /\ outcome # "not_json" => newer
          /\ outbound' = Append(outbound, Post(ActionPath(req[p].arg), AGENT_TIMEOUT_S))
          /\ loc' = [loc EXCEPT ![p].calls = @ + 1, ![p].upstream = outcome]
          /\ Finish(p, ProxyAnswer(outcome, req[p].arg, newer))
    /\ UNCHANGED <<ALARM_STORE, LATEST_RESULT_STORE, req, pre, hist, nextId,
                   clock, started, environ>>

(***************************************************************************)
(* Requests                                                                *)
(***************************************************************************)
S1Good == PyDict([device |-> PyInt(4), interface |-> PyStr("ge-0/0/1"),
                  packet_loss |-> PyInt(12), alarm_type |-> PyStr("major"),
                  interlink_status |-> PyStr("false")])
S1Missing == PyDict([device |-> PyInt(4), interface |-> PyStr("ge-0/0/1"),
                     packet_loss |-> PyInt(12)])

\* the ingests of a run of the server: one accepted, one rejected
IngestRequests == {Request("alerts", "1", S1Good), Request("alerts", "1", S1Missing)}

\* a delete names the id of an alarm the store is showing, or an id that no
\* alarm has
DeleteRequests == {Request("ignore", ALARM_STORE[i].id, None) : i \in 1..Len(ALARM_STORE)}
                  \cup {Request("ignore", PyStr("no-such-id"), None)}

ListRequests == {Request("current", "", None)}

WriteA == PyDict([text |-> PyStr("a"), scenario_id |-> PyInt(1)])
WriteB == PyDict([text |-> PyStr("b"), scenario_id |-> PyInt(2)])
WriteNoText == PyDict([scenario_id |-> PyInt(3)])
NotAnObject == PyList(<<PyInt(1)>>)

WriteRequests == {Request("agent", "", j) : j \in {None, WriteA, WriteB, WriteNoText, NotAnObject}}

\* the writes of a concurrent run
ConcWriteRequests == {Request("agent", "", j) : j \in {WriteA, WriteB}}

PollRequests == {Request("results", "", None)}

\* every payload shape the validation distinguishes: a key left out, a falsy
\* value, a truthy value, a value of the wrong type
DeviceOpts == {Omit, PyInt(0), PyInt(4), PyInt(5), PyInt(6), PyInt(7), PyList(<<PyInt(4)>>)}
InterfaceOpts == {Omit, PyStr(""), PyStr("ge-0/0/1")}
PacketLossOpts == {Omit, PyInt(0), PyInt(12)}
AlarmTypeOpts == {Omit, PyStr(""), PyStr("major"), PyStr("minor")}
InterlinkOpts == {Omit, PyStr("false"), PyStr("true"), PyBool(FALSE)}
FpcSlotOpts == {Omit, PyInt(0), PyInt(8)}
DiscardRateOpts == {Omit, None, EmptyDict, PyInt(7),
                    PyDict([discard_rate |-> PyInt(0)]),
                    PyDict([discard_rate |-> PyInt(7)])}
InterfacesOpts == {Omit, PyList(<<>>), PyList(<<PyStr("ge-0/0/2")>>)}
InoutPacketOpts == {Omit, EmptyDict, PyStr("x"),
                    PyDict([alarm_type |-> PyStr("critical")]),
                    PyDict([alarm_type |-> PyStr("critical"), traffic_diff |-> PyInt(30)])}
DropCountOpts == {Omit, EmptyDict, PyDict([count |-> PyInt(5)])}

S1Payloads == {PyDict(Strip(r)) : r \in [device : DeviceOpts, interface : InterfaceOpts,
                                         packet_loss : PacketLossOpts,
                                         alarm_type : AlarmTypeOpts,
                                         interlink_status : InterlinkOpts]}
S2Payloads == {PyDict(Strip(r)) : r \in [device : DeviceOpts, fpc_slot : FpcSlotOpts,
                                         discard_rate : DiscardRateOpts]}
S3Payloads == {PyDict(Strip(r)) : r \in [device : DeviceOpts, interface : InterfaceOpts,
                                         interfaces : InterfacesOpts,
                                         inout_packet : InoutPacketOpts,
                                         drop_count : DropCountOpts]}
Payloads == S1Payloads \cup S2Payloads \cup S3Payloads \cup {None, NotAnObject}
\* the query of an analysis request: empty, whitespace only, text within
\* whitespace, plain text, and values that are no text
QueryOpts == {PyText(<<>>), PyText(<<" ", "\t">>), PyText(<<" ", "h", "i", "\n">>),
              PyText(<<"h", "i">>), None, PyInt(5)}
AnalyzeRequests ==
    {Request("analyze", "", json) :
        json \in {None, NotAnObject, PyDict([model |-> PyStr("llama3")])}
                 \cup {PyDict([query |-> q]) : q \in QueryOpts}}
ActionIds == {PyStr("act-1"), PyStr("act-2")}
ProxyRequests ==
    {Request("proxy", actionId, json) :
        actionId \in ActionIds, json \in {None, PyDict([approve |-> PyBool(TRUE)])}}

\* GW_VERIFY in the environment the server is started in
EnvironOpts == {<<>>,
                [GW_VERIFY |-> <<"t", "r", "u", "e">>],
                [GW_VERIFY |-> <<"T", "r", "u", "e">>],
                [GW_VERIFY |-> <<"f", "a", "l", "s", "e">>],
                [GW_VERIFY |-> <<"1">>]}

ScenarioIds == {"1", "2", "3", "4"}

(***************************************************************************)
(* The alarm endpoints under concurrent requests: a request is taken by    *)
(* the first free thread while the other thread's handler is under way     *)
(***************************************************************************)
FirstFree(p) == pc[p] = "idle" /\ \A q \in Threads : q < p => pc[q] # "idle"

Total(f) == f["alerts"] + f["ignore"] + f["current"] + f["agent"] + f["results"]
            + f["analyze"] + f["proxy"]

Arrive ==
    /\ Total(started) < MaxConcReqs
    /\ \E p \in Threads, r \in IngestRequests \cup DeleteRequests \cup ListRequests :
          /\ FirstFree(p)
          /\ Begin(p, r)

AlarmStep(p) ==
    \/ alerts_normalize(p) \/ alerts_len_check(p) \/ alerts_pop(p)
    \/ alerts_append(p) \/ alerts_return(p)
    \/ ignore_len(p) \/ ignore_build(p) \/ ignore_bind(p) \/ ignore_return(p)
    \/ current_check(p) \/ current_return(p)

Next == Arrive \/ \E p \in Threads : AlarmStep(p) \/ Release(p)

Spec == Init /\ [][Next]_vars

(***************************************************************************)
(* The mailbox endpoints under concurrent requests                         *)
(***************************************************************************)
MailArrive ==
    /\ Total(started) < MaxConcReqs
    /\ \E p \in Threads, r \in ConcWriteRequests \cup PollRequests :
          /\ FirstFree(p)
          /\ Begin(p, r)

MailStep(p) ==
    \/ agent_body(p) \/ agent_set_result(p) \/ agent_set_timestamp(p)
    \/ agent_set_scenario(p)
    \/ results_check(p) \/ results_copy(p) \/ results_clear_result(p)
    \/ results_clear_timestamp(p) \/ results_clear_scenario(p)

MailNext == MailArrive \/ \E p \in Threads : MailStep(p) \/ Release(p)

MailSpec == Init /\ [][MailNext]_vars

(***************************************************************************)
(* The alarm endpoints, one request at a time                              *)
(***************************************************************************)
SeqAlarmArrive ==
    /\ AllIdle
    /\ Total(started) < MaxSeqReqs
    /\ \E r \in IngestRequests \cup DeleteRequests \cup ListRequests :
          Begin(MainThread, r)

SeqAlarmNext == SeqAlarmArrive \/ \E p \in Threads : AlarmStep(p) \/ Respond(p)

SeqAlarmSpec == Init /\ [][SeqAlarmNext]_vars

(***************************************************************************)
(* The mailbox endpoints, one request at a time                            *)
(***************************************************************************)
SeqMailArrive ==
    /\ AllIdle
    /\ Total(started) < MaxSeqReqs
    /\ \E r \in WriteRequests \cup PollRequests :
          Begin(MainThread, r)

SeqMailNext == SeqMailArrive \/ \E p \in Threads : MailStep(p) \/ Respond(p)

SeqMailSpec == Init /\ [][SeqMailNext]_vars

(***************************************************************************)
(* One ingest of any payload shape, arriving at a store that holds k       *)
(* alarms of earlier accepted ingests                                      *)
(***************************************************************************)
PriorStore(k) == [i \in 1..k |-> Normalize("1", S1Good, Uuid(i)).alarm]

NormInit ==
    \E k \in 0..MAX_ALARMS, sid \in ScenarioIds, json \in Payloads :
        /\ ALARM_STORE = PriorStore(k)
        /\ LATEST_RESULT_STORE = [result |-> PyDict([text |-> PyStr("")]),
                                  timestamp |-> None, scenario_id |-> None]
        /\ pc = [p \in Threads |-> IF p = MainThread THEN "alerts_228" ELSE "idle"]
        /\ req = [p \in Threads |-> IF p = MainThread
                                    THEN Request("alerts", sid, json) ELSE NoRequest]
        /\ loc = [p \in Threads |-> NoLocals]
        /\ resp = [p \in Threads |-> NoAnswer]
        /\ pre = [p \in Threads |-> IF p = MainThread
                                    THEN [store |-> ALARM_STORE,
                                          mailbox |-> LATEST_RESULT_STORE]
                                    ELSE <<>>]
        /\ hist = <<>>
        /\ nextId = k + 1
        /\ clock = 1
        /\ started = [kind \in Kinds |-> IF kind = "alerts" THEN k + 1 ELSE 0]
        /\ environ = <<>>
        /\ outbound = <<>>

NormNext ==
    \E p \in Threads :
        \/ alerts_normalize(p) \/ alerts_len_check(p) \/ alerts_pop(p)
        \/ alerts_append(p) \/ alerts_return(p)
        \/ Respond(p)

NormSpec == NormInit /\ [][NormNext]_vars

(***************************************************************************)
(* The endpoints that call the gateway, under concurrent requests, in a    *)
(* server started in any environment with an empty or a full alarm store   *)
(***************************************************************************)
GwInit ==
    \E env \in EnvironOpts, k \in {0, MAX_ALARMS} :
        /\ ALARM_STORE = PriorStore(k)
        /\ LATEST_RESULT_STORE = [result |-> PyDict([text |-> PyStr("")]),
                                  timestamp |-> None, scenario_id |-> None]
        /\ pc = [p \in Threads |-> "idle"]
        /\ req = [p \in Threads |-> NoRequest]
        /\ loc = [p \in Threads |-> NoLocals]
        /\ resp = [p \in Threads |-> NoAnswer]
        /\ pre = [p \in Threads |-> <<>>]
        /\ hist = <<>>
        /\ nextId = k + 1
        /\ clock = 1
        /\ started = [kind \in Kinds |-> IF kind = "alerts" THEN k ELSE 0]
        /\ environ = env
        /\ outbound = <<>>

GwArrive ==
    /\ started["analyze"] + started["proxy"] < MaxGwReqs
    /\ \E p \in Threads, r \in AnalyzeRequests \cup ProxyRequests :
          /\ FirstFree(p)
          /\ Begin(p, r)

GwStep(p) == analyze_query(p) \/ analyze_generate(p) \/ proxy_forward(p)

GwNext == GwArrive \/ \E p \in Threads : GwStep(p) \/ Release(p)

GwSpec == GwInit /\ [][GwNext]_vars

(***************************************************************************)
(* Properties                                                              *)
(***************************************************************************)
Min(a, b) == IF a < b THEN a ELSE b
LastN(seq, n) == SubSeq(seq, Len(seq) - n + 1, Len(seq))

IsIngest200(e) == e.req.kind = "alerts" /\ e.resp.status = 200
IsWrite200(e) == e.req.kind = "agent" /\ e.resp.status = 200
IsPoll(e) == e.req.kind = "results"
IsPoll200(e) == IsPoll(e) /\ e.resp.status = 200
Processing == Answer(202, [status |-> PyStr("processing")])

\* the alarms of the accepted ingests, in the order the requests were answered
IngestedAlarms ==
    LET accepted == SelectSeq(hist, IsIngest200)
    IN  [i \in 1..Len(accepted) |-> accepted[i].alarm]

\* C1: with requests handled one at a time and no delete so far, after n
\* accepted ingests the store is exactly the last min(n, 3) ingested alarms,
\* oldest first
C1_FifoWindow ==
    (AllIdle /\ started["ignore"] = 0)
        => ALARM_STORE = LastN(IngestedAlarms, Min(Len(IngestedAlarms), 3))

\* C1 witness: five accepted ingests, no delete: two alarms have been evicted
C1_Witness ==
    /\ AllIdle
    /\ started["ignore"] = 0
    /\ Len(IngestedAlarms) >= 5
    /\ Len(ALARM_STORE) = 3

\* C2: in every reachable state of the concurrent server the store holds at
\* most 3 alarms
C2_CapacityNeverExceeded == Len(ALARM_STORE) <= 3

\* what the j of an accepted write puts in the mailbox
WrittenText(e) == PyDict([text |-> DictGet(e.req.json.d, "text", None)])
WrittenScenario(e) == DictGet(e.req.json.d, "scenario_id", None)

\* C3: one accepted write followed by two polls, nothing in between: the
\* first poll answers 200 with the written text and scenario id, the second
\* answers 202 processing
C3_WriteThenTwoPolls ==
    \A i \in 1..(Len(hist) - 2) :
        (IsWrite200(hist[i]) /\ IsPoll(hist[i + 1]) /\ IsPoll(hist[i + 2]))
            => /\ hist[i + 1].resp.status = 200
               /\ hist[i + 1].resp.body.result = WrittenText(hist[i])
               /\ hist[i + 1].resp.body.scenario_id = WrittenScenario(hist[i])
               /\ hist[i + 2].resp = Processing

\* C3 witness: a write of text "a" has been followed by two answered polls
C3_Witness ==
    \E i \in 1..(Len(hist) - 2) :
        /\ IsWrite200(hist[i]) /\ hist[i].req.json = WriteA
        /\ IsPoll(hist[i + 1]) /\ IsPoll(hist[i + 2])

\* C4: two polls never both answer 200 with the same written result (a
\* written result is known by the timestamp its write stamped on it)
C4_AtMostOneDelivery ==
    \A p, q \in Threads :
        (/\ p # q
         /\ pc[p] = "done" /\ req[p].kind = "results" /\ resp[p].status = 200
         /\ pc[q] = "done" /\ req[q].kind = "results" /\ resp[q].status = 200
         /\ resp[p].body.timestamp # None)
            => resp[p].body.timestamp # resp[q].body.timestamp

\* C5: a poll answers 200 exactly when an accepted write lies before it with
\* no 200 poll in between; otherwise, and so on the first poll of a server
\* that has seen no write, it answers 202 processing
C5_Poll200OnlyAfterWrite ==
    \A i \in 1..Len(hist) :
        IsPoll(hist[i]) =>
            LET fresh == \E j \in 1..(i - 1) :
                            /\ IsWrite200(hist[j])
                            /\ \A k \in (j + 1)..(i - 1) : ~IsPoll200(hist[k])
            IN  IF fresh THEN hist[i].resp.status = 200
                         ELSE hist[i].resp = Processing

\* C6: an ingest answered 400 leaves the alarm store as the request found it
C6_RejectedIngestKeepsStore ==
    \A p \in Threads :
        (pc[p] = "done" /\ req[p].kind = "alerts" /\ resp[p].status = 400)
            => ALARM_STORE = pre[p].store

\* C6 witness: a scenario-2 ingest has been answered 400 at a full store
C6_Witness ==
    \E p \in Threads :
        /\ pc[p] = "done" /\ req[p].kind = "alerts" /\ req[p].arg = "2"
        /\ resp[p].status = 400
        /\ Truthy(BodyOf(req[p].json))
        /\ Len(pre[p].store) = 3

HasId(store, alarm_id) == \E i \in 1..Len(store) : store[i].id = alarm_id

\* C7: with requests handled one at a time, a delete whose id matches no
\* alarm answers 404 and leaves the store as it was; a delete whose id matches
\* an alarm answers 200
C7_DeleteAnswer ==
    \A p \in Threads :
        (pc[p] = "done" /\ req[p].kind = "ignore")
            => IF HasId(pre[p].store, req[p].arg)
               THEN resp[p].status = 200
               ELSE resp[p].status = 404 /\ ALARM_STORE = pre[p].store

\* C7 witness: a delete of an unknown id has been answered at a store of
\* two alarms
C7_Witness ==
    \E p \in Threads :
        /\ pc[p] = "done" /\ req[p].kind = "ignore"
        /\ ~HasId(pre[p].store, req[p].arg)
        /\ Len(pre[p].store) = 2

\* C8: an accepted ingest and a delete of another id, both begun below
\* capacity and both completed: the ingested alarm is in the store
C8_NoLostAppend ==
    \A p, q \in Threads :
        (/\ pc[p] = "done" /\ req[p].kind = "alerts" /\ resp[p].status = 200
         /\ pc[q] = "done" /\ req[q].kind = "ignore"
         /\ req[q].arg # loc[p].unified_alarm_data.id
         /\ Len(pre[p].store) < 3 /\ Len(pre[q].store) < 3)
            => HasId(ALARM_STORE, loc[p].unified_alarm_data.id)

\* C9: two accepted writes with nothing in between, then a poll: the poll
\* answers 200 with the text and scenario id of the second write, a poll
\* right after it answers 202, and no later poll delivers the first write
C9_LastWriteWins ==
    \A i \in 1..(Len(hist) - 2) :
        (IsWrite200(hist[i]) /\ IsWrite200(hist[i + 1]) /\ IsPoll(hist[i + 2]))
            => /\ hist[i + 2].resp.status = 200
               /\ hist[i + 2].resp.body.result = WrittenText(hist[i + 1])
               /\ hist[i + 2].resp.body.scenario_id = WrittenScenario(hist[i + 1])
               /\ hist[i + 2].resp.body.timestamp = hist[i + 1].post.mailbox.timestamp
               /\ (i + 3 <= Len(hist) /\ IsPoll(hist[i + 3]))
                      => hist[i + 3].resp = Processing
               /\ \A k \in (i + 2)..Len(hist) :
                      IsPoll200(hist[k])
                          => hist[k].resp.body.timestamp # hist[i].post.mailbox.timestamp

\* C9 witness: write "a", write "b", then two answered polls
C9_Witness ==
    \E i \in 1..(Len(hist) - 3) :
        /\ IsWrite200(hist[i]) /\ hist[i].req.json = WriteA
        /\ IsWrite200(hist[i + 1]) /\ hist[i + 1].req.json = WriteB
        /\ IsPoll(hist[i + 2]) /\ IsPoll(hist[i + 3])

\* the required-field checks in the words of the interface description: a
\* field is present when the payload is an object that has the key
Field(json, k) == IF json.t = "dict" THEN DictGet(json.d, k, None) ELSE None
NonFalsy(json, k) == Truthy(Field(json, k))
NonEmptyObject(v) == v.t = "dict" /\ DOMAIN v.d # {}
NonEmptyList(v) == v.t = "list" /\ Len(v.xs) > 0

RequiredFieldsPass(scenario_id, json) ==
    CASE scenario_id = "1" ->
            /\ NonFalsy(json, "device") /\ NonFalsy(json, "interface")
            /\ NonFalsy(json, "alarm_type")
            /\ Field(json, "packet_loss") # None
      [] scenario_id = "2" ->
            /\ NonFalsy(json, "device") /\ NonFalsy(json, "fpc_slot")
            /\ Truthy(Field(Field(json, "discard_rate"), "discard_rate"))
      [] scenario_id = "3" ->
            /\ NonFalsy(json, "device") /\ NonFalsy(json, "interface")
            /\ NonEmptyList(Field(json, "interfaces"))
            /\ NonEmptyObject(Field(json, "inout_packet"))
            /\ NonEmptyObject(Field(json, "drop_count"))
      [] OTHER -> FALSE

\* C10: an ingest with a non-empty body is answered 200, with one alarm
\* appended, exactly when the scenario's required-field check passes, and is
\* answered 400 otherwise
C10_AcceptedIffRequired ==
    \A p \in Threads :
        (pc[p] = "done" /\ req[p].kind = "alerts" /\ Truthy(BodyOf(req[p].json)))
            => IF RequiredFieldsPass(req[p].arg, req[p].json)
               THEN /\ resp[p].status = 200
                    /\ Len(ALARM_STORE) = Min(Len(pre[p].store) + 1, 3)
                    /\ ALARM_STORE[Len(ALARM_STORE)] = loc[p].unified_alarm_data
               ELSE resp[p].status = 400

\* an ingest of scenario sid that thread p has built an alarm for and has
\* seen accepted
Accepted(p, sid) ==
    /\ pc[p] = "done" /\ req[p].kind = "alerts" /\ req[p].arg = sid
    /\ resp[p].status = 200

\* the device name the interface description gives for a device id
ExpectedDevice(device_id) ==
    IF device_id = PyInt(4) THEN PyStr("CR1")
    ELSE IF device_id = PyInt(5) THEN PyStr("BB1")
    ELSE IF device_id = PyInt(6) THEN PyStr("BB2")
    ELSE FStr(<<PyStr("Unknown("), device_id, PyStr(")")>>)

\* the interlink warning sentence naming an interface
InterlinkWarning(interface_name) ==
    FStr(<<PyStr("*warning : "), interface_name,
           PyStr(" is down. check the interlink.")>>)
HasPiece(text, piece) ==
    text.t = "fstr" /\ \E i \in 1..Len(text.parts) : text.parts[i] = piece

\* C11: the alarm of an accepted scenario-1 payload has the table's device
\* name for ids 4, 5, 6 and Unknown(<id>) otherwise, the payload's
\* alarm_type as its type, and the interlink warning naming the interface in
\* its description exactly when interlink_status is the string "false"
C11_Scenario1Mapping ==
    \A p \in Threads :
        Accepted(p, "1") =>
            LET body  == req[p].json.d
                alarm == loc[p].unified_alarm_data
            IN  /\ alarm.device = ExpectedDevice(body["device"])
                /\ alarm.type = body["alarm_type"]
                /\ HasPiece(alarm.description, InterlinkWarning(body["interface"]))
                       <=> DictGet(body, "interlink_status", None) = PyStr("false")

\* C11 witness: an accepted scenario-1 payload of device 5 whose
\* interlink_status is "false"
C11_Witness ==
    \E p \in Threads :
        /\ Accepted(p, "1")
        /\ req[p].json.d["device"] = PyInt(5)
        /\ DictGet(req[p].json.d, "interlink_status", None) = PyStr("false")

C13_Scenario3Flags ==
    \A p \in Threads :
        Accepted(p, "3") =>
            LET alarm == loc[p].unified_alarm_data
            IN  /\ DictGet(alarm, "show_interfaces_button", None) = PyBool(TRUE)
                /\ DictGet(alarm, "show_optic_power_button", None) = PyBool(FALSE)
                /\ DictGet(alarm, "show_log_button", None) = PyBool(FALSE)

\* C14: no two alarms of the store have the same id
C14_UniqueIds ==
    \A i, j \in 1..Len(ALARM_STORE) :
        i # j => ALARM_STORE[i].id # ALARM_STORE[j].id

\* C14 witness: after a delete, the store holds three alarms while two
\* ingests have just completed side by side
C14_Witness ==
    /\ started["ignore"] > 0
    /\ Len(ALARM_STORE) >= 3
    /\ \A p \in Threads : pc[p] = "done" /\ req[p].kind = "alerts"
                          /\ resp[p].status = 200

\* the request has no query, or a query of nothing but whitespace
BlankQuery(json) ==
    /\ HasGet(BodyOf(json))
    /\ LET query == DictGet(BodyOf(json).d, "query", PyText(<<>>))
       IN  /\ query.t = "text"
           /\ \A i \in 1..Len(query.cs) : query.cs[i] \in Whitespace

\* the request has a query with a character that is no whitespace
SolidQuery(json) ==
    /\ HasGet(BodyOf(json))
    /\ LET query == DictGet(BodyOf(json).d, "query", PyText(<<>>))
       IN  /\ query.t = "text"
           /\ \E i \in 1..Len(query.cs) : query.cs[i] \notin Whitespace

\* C15: an analysis request whose query is absent, empty or whitespace only
\* is answered 400 and never calls the gateway; a handler that is about to
\* call or has called the gateway has a query that passed the check
C15_BlankQueryRejected ==
    \A p \in Threads :
        req[p].kind = "analyze" =>
            /\ BlankQuery(req[p].json) =>
                  /\ pc[p] # "analyze_154"
                  /\ loc[p].calls = 0
                  /\ pc[p] = "done" => resp[p].status = 400
            /\ (pc[p] = "analyze_154" \/ loc[p].calls > 0) => SolidQuery(req[p].json)

\* C15 witness: a whitespace-only query has been answered 400 while another
\* request's query has passed the check and reached the gateway
C15_Witness ==
    \E p, q \in Threads :
        /\ pc[p] = "done" /\ req[p].kind = "analyze"
        /\ req[p].json = PyDict([query |-> PyText(<<" ", "\t">>)])
        /\ resp[p].status = 400
        /\ pc[q] = "done" /\ req[q].kind = "analyze"
        /\ loc[q].calls = 1 /\ resp[q].status = 202

\* the text, or a piece of it at any depth, is v
RECURSIVE Mentions(_, _)
Mentions(text, v) ==
    \/ text = v
    \/ /\ text.t = "fstr"
       /\ \E i \in 1..Len(text.parts) : Mentions(text.parts[i], v)

\* C16: when the upstream call of an action request times out, fails in
\* transport or is answered non-2xx, the answer is 502 with a message that
\* names the action id, after exactly one upstream call and with both stores
\* as the request found them
C16_UpstreamFailureIs502 ==
    \A p \in Threads :
        (pc[p] = "done" /\ req[p].kind = "proxy" /\ loc[p].upstream \in Failures) =>
            /\ resp[p].status = 502
            /\ DictGet(resp[p].body, "status", None) = PyStr("error")
            /\ Mentions(DictGet(resp[p].body, "message", None), req[p].arg)
            /\ loc[p].calls = 1
            /\ ALARM_STORE = pre[p].store
            /\ LATEST_RESULT_STORE = pre[p].mailbox

\* C17: in a server started with no GW_VERIFY in its environment, every
\* call to the gateway is made with certificate verification on
C17_VerifyByDefault ==
    "GW_VERIFY" \notin DOMAIN environ =>
        \A i \in 1..Len(outbound) : outbound[i].verify

\* line 430, for the body of the write thread p serves
ResultOf(p) == PyDict([text |-> DictGet(BodyOf(req[p].json).d, "text", None)])

\* C18: when a write has completed beside the only poll there has been, a
\* poll that found an earlier write's result in the mailbox, the written
\* result has been returned by that poll or is still in the mailbox
C18_NoLostWrite ==
    \A p, q \in Threads :
        ( /\ pc[p] = "done" /\ req[p].kind = "agent" /\ resp[p].status = 200
          /\ pc[q] = "done" /\ req[q].kind = "results"
          /\ started["results"] = 1
          /\ pre[q].mailbox.timestamp # None ) =>
            \/ resp[q].status = 200 /\ resp[q].body.result = ResultOf(p)
            \/ LATEST_RESULT_STORE.result = ResultOf(p)

\* the mailbox as it is before the first write
InitialResult == PyDict([text |-> PyStr("")])

\* C19: a result a poll returns with 200 has the text and the scenario id
\* of one and the same write, and a timestamp
C19_PollSnapshot ==
    \A q \in Threads :
        ( /\ pc[q] = "done" /\ req[q].kind = "results" /\ resp[q].status = 200
          /\ resp[q].body.result # InitialResult ) =>
            /\ resp[q].body.timestamp # None
            /\ \E w \in ConcWriteRequests :
                  /\ resp[q].body.result = PyDict([text |-> w.json.d["text"]])
                  /\ resp[q].body.scenario_id = w.json.d["scenario_id"]

\* store without its i-th alarm
RemoveAt(store, i) == SubSeq(store, 1, i - 1) \o SubSeq(store, i + 1, Len(store))

\* C20: with requests handled one at a time, a delete answered 200 has
\* removed the one alarm whose id is the requested id: the other alarms are
\* in the store in their order, the store is one shorter, and the mailbox is
\* as it was
C20_DeleteRemovesOnlyTarget ==
    \A p \in Threads :
        (pc[p] = "done" /\ req[p].kind = "ignore" /\ resp[p].status = 200) =>
            /\ \E i \in 1..Len(pre[p].store) :
                  /\ pre[p].store[i].id = req[p].arg
                  /\ ALARM_STORE = RemoveAt(pre[p].store, i)
            /\ ~HasId(ALARM_STORE, req[p].arg)
            /\ Len(ALARM_STORE) = Len(pre[p].store) - 1
            /\ LATEST_RESULT_STORE = pre[p].mailbox

\* C20 witness: the middle alarm of a full store has been deleted
C20_Witness ==
    \E p \in Threads :
        /\ pc[p] = "done" /\ req[p].kind = "ignore" /\ resp[p].status = 200
        /\ Len(pre[p].store) = MAX_ALARMS
        /\ pre[p].store[2].id = req[p].arg
        /\ Len(ALARM_STORE) = 2

====
